---- MODULE Spec2Model ----
(***************************************************************************)
(* Model of final_mapping_code/final.py: map_csv_to_csv reads a source     *)
(* table and a template table, normalises some source columns, and for     *)
(* every source row writes one resolved copy of the template to a file     *)
(* named after the row's grantAwardId.                                     *)
(*                                                                         *)
(* Text is a sequence of one-character strings, so that strip(), lower(),  *)
(* upper(), split('.') and str[0] are computed and not assumed.  Column    *)
(* names, schema keys and the program's literal markers ("NOT FOUND",      *)
(* "OPEN", ...) are only ever compared for equality by the code and are    *)
(* one-element texts holding the whole name.                               *)
(*                                                                         *)
(* pandas semantics are those of pandas 1.3 - 2.x: Series.astype(str)      *)
(* turns a missing value into the text "nan", read_csv turns an empty      *)
(* cell into NaN, DataFrame.copy() is deep.  Date columns hold day-first   *)
(* dd/mm/yyyy text; columns hold text, so astype(str) leaves a present     *)
(* value as it is.  A written file is held as the rows handed to to_csv.   *)
(***************************************************************************)
EXTENDS Integers, Sequences, FiniteSets, TLC

VARIABLES
    source_csv,         \* the source file: [ok, columns, rows] as read_csv parses it
    target_csv,         \* the template file, likewise
    source_df,          \* the source DataFrame
    frames,             \* the DataFrame objects, by object name
    updated_target_df,  \* which object the loop variable of that name refers to
    pc,                 \* where control is in map_csv_to_csv
    index,              \* 0-based label of the row the loop is at
    files,              \* output folder content: file name -> rows written
    output_folder,      \* whether the output folder exists
    stdout              \* what has been printed

vars == <<source_csv, target_csv, source_df, frames, updated_target_df, pc,
          index, files, output_folder, stdout>>

(***************************************************************************)
(* Cells: every cell of a table has the same shape.                        *)
(***************************************************************************)
Str(s) == [t |-> "str", v |-> s, d |-> 0]
NaN == [t |-> "nan", v |-> <<>>, d |-> 0]
NaT == [t |-> "nat", v |-> <<>>, d |-> 0]
Date(n) == [t |-> "date", v |-> <<>>, d |-> n]

\* pd.notna(x)
notna(c) == c.t \notin {"nan", "nat"}

\* One-element text holding a whole name or literal marker.
Lit(name) == <<name>>

NOT_FOUND == Str(Lit("NOT FOUND"))
OPEN == Str(Lit("OPEN"))
CLOSED == Str(Lit("CLOSED"))
UNKNOWN == Str(Lit("UNKNOWN"))
NanText == <<"n", "a", "n">>
EmptyStr == Str(<<>>)

(***************************************************************************)
(* Column names.                                                           *)
(***************************************************************************)
KeyCol == "JSON Schema 5.0 Data Field"
ValueCol == "Value from the Source or as determined by Supplier"
GivenName == "awardeeDetail/affiliationOf/givenName"
FamilyName == "awardeeDetail/affiliationOf/familyName"
Initials == "awardeeDetail/affiliationOf/initials"
FullName == "awardeeDetail/affiliationOf/name"
FundingBodyAwardId == "fundingBodyAwardId"
EndDate == "endDate"
CreatedOn == "createdOn"
Amount == "fundingDetail/fundingTotal/amount"
DepartmentName == "awardeeDetail/departmentName"
Orcid == "awardeeDetail/affiliationOf/identifier/id/orcid"
FundsStatusKey == "funds/status"
GrantAwardId == "grantAwardId"

(***************************************************************************)
(* Python string methods.                                                  *)
(***************************************************************************)
Whitespace == {" ", "\t", "\n", "\r"}
LowerLetters == <<"a","b","c","d","e","f","g","h","i","j","k","l","m",
                  "n","o","p","q","r","s","t","u","v","w","x","y","z">>
UpperLetters == <<"A","B","C","D","E","F","G","H","I","J","K","L","M",
                  "N","O","P","Q","R","S","T","U","V","W","X","Y","Z">>

LowerChar(c) ==
    IF \E i \in DOMAIN UpperLetters : UpperLetters[i] = c
    THEN LowerLetters[CHOOSE i \in DOMAIN UpperLetters : UpperLetters[i] = c]
    ELSE c

UpperChar(c) ==
    IF \E i \in DOMAIN LowerLetters : LowerLetters[i] = c
    THEN UpperLetters[CHOOSE i \in DOMAIN LowerLetters : LowerLetters[i] = c]
    ELSE c

\* str.lower()
lower(s) == [i \in DOMAIN s |-> LowerChar(s[i])]

\* str.upper()
upper(s) == [i \in DOMAIN s |-> UpperChar(s[i])]

\* str.strip(): drop leading and trailing whitespace
strip(s) ==
    LET keep == {i \in DOMAIN s : s[i] \notin Whitespace}
    IN  IF keep = {} THEN <<>>
        ELSE LET lo == CHOOSE i \in keep : \A j \in keep : i <= j
                 hi == CHOOSE i \in keep : \A j \in keep : j <= i
             IN  SubSeq(s, lo, hi)

\* s.split('.')[0]: the text before the first '.', the whole text without one
SplitDotFirst(s) ==
    LET dots == {i \in DOMAIN s : s[i] = "."}
    IN  IF dots = {} THEN s
        ELSE SubSeq(s, 1, (CHOOSE i \in dots : \A j \in dots : i <= j) - 1)

\* s[0:1]: the first character, empty for the empty text
First(s) == IF s = <<>> THEN <<>> ELSE <<s[1]>>

Digits == <<"0","1","2","3","4","5","6","7","8","9">>

\* str(n) for n >= 0
RECURSIVE IntToText(_)
IntToText(n) ==
    IF n < 10 THEN <<Digits[n + 1]>>
    ELSE IntToText(n \div 10) \o <<Digits[(n % 10) + 1]>>

\* Series.astype(str) on one cell: a missing value becomes the text "nan"
astype_str(c) == IF c.t = "str" THEN c ELSE Str(NanText)

\* Series.fillna(x) on one cell
fillna(c, x) == IF notna(c) THEN c ELSE x

(***************************************************************************)
(* pd.to_datetime(col, errors="coerce", dayfirst=True).dt.date on one      *)
(* cell.  Day-first text dd/mm/yyyy is parsed and range-checked; a missing *)
(* cell, any other shape and any impossible calendar date become NaT.      *)
(* A date is held as the number yyyymmdd, which orders as dates do.        *)
(***************************************************************************)
IsDigit(c) == \E i \in DOMAIN Digits : Digits[i] = c
DigitVal(c) == (CHOOSE i \in DOMAIN Digits : Digits[i] = c) - 1

RECURSIVE TextToInt(_)
TextToInt(s) ==
    IF s = <<>> THEN 0
    ELSE 10 * TextToInt(SubSeq(s, 1, Len(s) - 1)) + DigitVal(s[Len(s)])

IsLeap(y) == (y % 4 = 0 /\ y % 100 # 0) \/ y % 400 = 0

DaysInMonth(m, y) ==
    IF m = 2 THEN (IF IsLeap(y) THEN 29 ELSE 28)
    ELSE IF m \in {4, 6, 9, 11} THEN 30 ELSE 31

to_datetime(c) ==
    IF c.t # "str" THEN NaT
    ELSE LET s == c.v
         IN  IF /\ Len(s) = 10
                /\ s[3] = "/" /\ s[6] = "/"
                /\ \A i \in {1, 2, 4, 5, 7, 8, 9, 10} : IsDigit(s[i])
             THEN LET day == TextToInt(SubSeq(s, 1, 2))
                      month == TextToInt(SubSeq(s, 4, 5))
                      year == TextToInt(SubSeq(s, 7, 10))
                  IN  IF /\ month \in 1..12
                         /\ year >= 1
                         /\ day \in 1..DaysInMonth(month, year)
                      THEN Date(year * 10000 + month * 100 + day)
                      ELSE NaT
             ELSE NaT

(***************************************************************************)
(* Tables (DataFrames): a set of column names and a sequence of rows,      *)
(* each row a function from the column names to cells.                     *)
(***************************************************************************)
EmptyFrame == [columns |-> {}, rows |-> <<>>]

\* df[col] = series: one value per row (adds the column when it is new)
WithColumn(df, col, series) ==
    [columns |-> df.columns \cup {col},
     rows |-> [i \in DOMAIN df.rows |->
                 [c \in df.columns \cup {col} |->
                    IF c = col THEN series[i] ELSE df.rows[i][c]]]]

\* row.get(col): None (a missing value for pd.notna) when the column is absent
RowGet(row, col) == IF col \in DOMAIN row THEN row[col] ELSE NaN

\* source_mapping.get(field_name, default): field_name is a template cell
DictGet(mapping, field_name, default) ==
    IF /\ field_name.t = "str"
       /\ Len(field_name.v) = 1
       /\ field_name.v[1] \in DOMAIN mapping
    THEN mapping[field_name.v[1]]
    ELSE default

Say(tag) == [tag |-> tag, id |-> <<>>]

(***************************************************************************)
(* The loader's steps.  Each takes the source table and gives the table    *)
(* after the step, where control goes next and what is printed.            *)
(***************************************************************************)

\* lines 24-29
InitialsOf(row) ==
    LET a == Str(upper(First(astype_str(row[GivenName]).v)) \o <<".">>)
    IN  IF notna(row[GivenName]) THEN a ELSE EmptyStr

ExtractInitials(df) ==
    IF GivenName \in df.columns
    THEN [df |-> WithColumn(df, Initials, [i \in DOMAIN df.rows |-> InitialsOf(df.rows[i])]),
          next |-> "funding_id", out |-> <<>>]
    ELSE [df |-> df, next |-> "returned",
          out |-> <<Say("ERROR given name column missing")>>]

\* lines 32-37
FundingBodyAwardIdOf(row) ==
    LET a == astype_str(row[FundingBodyAwardId])
        b == Str(strip(a.v))
    IN  fillna(b, NOT_FOUND)

ExtractFundingBodyAwardId(df) ==
    IF FundingBodyAwardId \in df.columns
    THEN [df |-> WithColumn(df, FundingBodyAwardId, [i \in DOMAIN df.rows |-> FundingBodyAwardIdOf(df.rows[i])]),
          next |-> "full_name", out |-> <<>>]
    ELSE [df |-> df, next |-> "returned",
          out |-> <<Say("ERROR fundingBodyAwardId column missing")>>]

\* lines 41-45
FullNameOf(row) ==
    LET g == fillna(row[GivenName], EmptyStr).v
        f == fillna(row[FamilyName], EmptyStr).v
    IN  Str(strip(g \o <<" ">> \o f))

MergeFullName(df) ==
    IF GivenName \in df.columns /\ FamilyName \in df.columns
    THEN [df |-> WithColumn(df, FullName, [i \in DOMAIN df.rows |-> FullNameOf(df.rows[i])]),
          next |-> "dates", out |-> <<>>]
    ELSE [df |-> df, next |-> "dates", out |-> <<>>]

\* lines 48-53
EndDateOf(row) == to_datetime(row[EndDate])
CreatedOnOf(row) == to_datetime(row[CreatedOn])

\* Variant of ParseDates: the error is printed but the function goes on
ParseDatesNoReturn(df) ==
    IF EndDate \in df.columns /\ CreatedOn \in df.columns
    THEN [df |-> WithColumn(
                   WithColumn(df, EndDate,
                              [i \in DOMAIN df.rows |-> EndDateOf(df.rows[i])]),
                   CreatedOn,
                   [i \in DOMAIN df.rows |-> CreatedOnOf(df.rows[i])]),
          next |-> "amount", out |-> <<>>]
    ELSE [df |-> df, next |-> "amount",
          out |-> <<Say("ERROR endDate or createdOn column missing")>>]

ParseDates(df) ==
    IF EndDate \in df.columns /\ CreatedOn \in df.columns
    THEN [df |-> WithColumn(
                   WithColumn(df, EndDate,
                              [i \in DOMAIN df.rows |-> EndDateOf(df.rows[i])]),
                   CreatedOn,
                   [i \in DOMAIN df.rows |-> CreatedOnOf(df.rows[i])]),
          next |-> "amount", out |-> <<>>]
    ELSE [df |-> df, next |-> "returned",
          out |-> <<Say("ERROR endDate or createdOn column missing")>>]

\* lines 56-61
AmountOf(row) ==
    LET a == astype_str(row[Amount])
        b == Str(SplitDotFirst(a.v))
    IN  fillna(b, NOT_FOUND)

ConvertAmount(df) ==
    IF Amount \in df.columns
    THEN [df |-> WithColumn(df, Amount, [i \in DOMAIN df.rows |-> AmountOf(df.rows[i])]),
          next |-> "department", out |-> <<>>]
    ELSE [df |-> df, next |-> "returned",
          out |-> <<Say("ERROR funding amount column missing")>>]

\* lines 64-68
DepartmentOf(row) == fillna(row[DepartmentName], NOT_FOUND)

FillDepartment(df) ==
    IF DepartmentName \in df.columns
    THEN [df |-> WithColumn(df, DepartmentName, [i \in DOMAIN df.rows |-> DepartmentOf(df.rows[i])]),
          next |-> "orcid", out |-> <<>>]
    ELSE [df |-> df, next |-> "returned",
          out |-> <<Say("ERROR departmentName column missing")>>]

\* lines 71-75
OrcidOf(row) == fillna(row[Orcid], NOT_FOUND)

FillOrcid(df) ==
    IF Orcid \in df.columns
    THEN [df |-> WithColumn(df, Orcid, [i \in DOMAIN df.rows |-> OrcidOf(df.rows[i])]),
          next |-> "loop", out |-> <<>>]
    ELSE [df |-> df, next |-> "returned",
          out |-> <<Say("ERROR orcid column missing")>>]

(***************************************************************************)
(* The mapper (the body of the per-row loop).                              *)
(***************************************************************************)

\* Variant of copy: no copy is made, the name is bound to the same object
copy_alias(heap, ref) == [heap |-> heap, ref |-> ref]

\* target_df.copy(): a new object holding the same rows
copy(heap, ref) ==
    [heap |-> [heap EXCEPT !["updated"] = heap[ref]], ref |-> "updated"]

\* Variant of update_value: the source value wins over a static value
update_value_source_first(field_name, current_value, source_mapping) ==
    DictGet(source_mapping, field_name, current_value)

\* Variant of update_value: a blank value is filled without looking it up
update_value_no_lookup(field_name, current_value, source_mapping) ==
    IF notna(current_value) /\ current_value # EmptyStr
    THEN current_value
    ELSE NOT_FOUND

\* lines 82-83
update_value(field_name, current_value, source_mapping) ==
    IF notna(current_value) /\ current_value # EmptyStr
    THEN current_value
    ELSE DictGet(source_mapping, field_name, NOT_FOUND)

\* lines 88-91: apply update_value to every row
DefaultFill(df, source_mapping) ==
    [df EXCEPT !.rows =
        [i \in DOMAIN df.rows |->
            [df.rows[i] EXCEPT ![ValueCol] =
                update_value(df.rows[i][KeyCol], df.rows[i][ValueCol],
                             source_mapping)]]]

\* Variant of SetWhereKey: a value already present is kept
SetWhereKeyIfBlank(df, key, value) ==
    [df EXCEPT !.rows =
        [i \in DOMAIN df.rows |->
            IF df.rows[i][KeyCol] = Str(Lit(key)) /\ ~notna(df.rows[i][ValueCol])
            THEN [df.rows[i] EXCEPT ![ValueCol] = value]
            ELSE df.rows[i]]]

\* df.loc[df[KeyCol] == key, ValueCol] = value
SetWhereKey(df, key, value) ==
    [df EXCEPT !.rows =
        [i \in DOMAIN df.rows |->
            IF df.rows[i][KeyCol] = Str(Lit(key))
            THEN [df.rows[i] EXCEPT ![ValueCol] = value]
            ELSE df.rows[i]]]

\* Variant of funds_status: equal dates count as open
funds_status_ge(row) ==
    IF notna(RowGet(row, EndDate)) /\ notna(RowGet(row, CreatedOn))
    THEN (IF row[EndDate].d >= row[CreatedOn].d THEN OPEN ELSE CLOSED)
    ELSE UNKNOWN

\* lines 94-97
funds_status(row) ==
    IF notna(RowGet(row, EndDate)) /\ notna(RowGet(row, CreatedOn))
    THEN (IF row[EndDate].d > row[CreatedOn].d THEN OPEN ELSE CLOSED)
    ELSE UNKNOWN

\* lines 86-112: the template copy after all assignments for one source row
MapRow(df, row) ==
    LET a == SetWhereKey(df, FundingBodyAwardId, row[FundingBodyAwardId])
        b == DefaultFill(a, row)
        c == SetWhereKey(b, FundsStatusKey, funds_status(row))
        d == SetWhereKey(c, Initials, row[Initials])
        e == SetWhereKey(d, Amount, row[Amount])
        f == SetWhereKey(e, DepartmentName, row[DepartmentName])
    IN  SetWhereKey(f, Orcid, row[Orcid])

\* f"row_{index + 1}"
RowName(idx) == <<"r", "o", "w", "_">> \o IntToText(idx + 1)

\* Variant of grant_award_id: the fallback counts rows from 0
grant_award_id_zero_based(row, idx) ==
    LET raw == IF GrantAwardId \in DOMAIN row
               THEN astype_str(row[GrantAwardId]).v
               ELSE RowName(idx)
        g == strip(raw)
    IN  IF g = <<>> \/ lower(g) = NanText
        THEN <<"r", "o", "w", "_">> \o IntToText(idx)
        ELSE g

\* lines 120-124
grant_award_id(row, idx) ==
    LET raw == IF GrantAwardId \in DOMAIN row
               THEN astype_str(row[GrantAwardId]).v
               ELSE RowName(idx)
        g == strip(raw)
    IN  IF g = <<>> \/ lower(g) = NanText THEN RowName(idx) ELSE g

\* line 127 (within the one output folder)
output_file(id) == Lit("mapped_output_") \o id \o Lit(".csv")

(***************************************************************************)
(* Inputs.  read_csv gives NaN for an empty cell and text otherwise, so a  *)
(* loaded cell is NaN or non-empty text.                                   *)
(***************************************************************************)
MaxRows == 2

Title == "title"
FunderSchemeType == "funderSchemeType"

SourceColumns == {GivenName, FamilyName, FundingBodyAwardId, EndDate, CreatedOn,
                  Amount, DepartmentName, Orcid, GrantAwardId, Title}

RequiredColumns == {GivenName, FundingBodyAwardId, EndDate, CreatedOn, Amount,
                    DepartmentName, Orcid}

ThirdOfApril == Str(<<"0","3","/","0","4","/","2","0","2","0">>)
FourthOfMarch == Str(<<"0","4","/","0","3","/","2","0","2","0">>)
NoSuchDay == Str(<<"3","1","/","0","2","/","2","0","2","0">>)

BaseRecord ==
    [c \in SourceColumns |->
        CASE c = GivenName -> Str(<<"j", "o">>)
          [] c = FamilyName -> Str(<<"D", "o", "e">>)
          [] c = FundingBodyAwardId -> Str(<<"1", "1", "/", "4">>)
          [] c = EndDate -> ThirdOfApril
          [] c = CreatedOn -> FourthOfMarch
          [] c = Amount -> Str(<<"1", "2">>)
          [] c = DepartmentName -> Str(<<"B", "i", "o">>)
          [] c = Orcid -> Str(<<"0", "0", "-", "1">>)
          [] c = GrantAwardId -> Str(<<"G", "1">>)
          [] OTHER -> Str(<<"T">>)]

\* The records that differ from BaseRecord in the columns cs, drawn from vals
Varying(cs, vals) ==
    {[c \in SourceColumns |-> IF c \in cs THEN f[c] ELSE BaseRecord[c]] :
        f \in [cs -> vals]}

\* Families of source records; the rows of one source table come from one family
RecordFamilies ==
    << Varying({GivenName, FamilyName}, {NaN, Str(<<"j", "o">>)}),
       Varying({FundingBodyAwardId},
               {NaN, Str(<<" ", "1", "1", "/", "4", " ">>), Str(<<" ">>),
                Str(<<"1", "1", "/", "4">>)}),
       {r \in Varying({EndDate, CreatedOn},
                       {NaN, NoSuchDay, ThirdOfApril, FourthOfMarch}) :
           r[CreatedOn] # NoSuchDay},
       Varying({Amount},
               {NaN, Str(<<"1", "2", ".", "9", ".", "5">>), Str(<<"1", "2">>)}),
       Varying({DepartmentName, Orcid}, {NaN, Str(<<"B", "i", "o">>)}),
       Varying({GrantAwardId},
               {NaN, Str(<<" ", "G", "1", " ">>), Str(<<" ", "N", "a", "n">>),
                Str(<<" ">>), Str(<<"r", "o", "w", "_", "2">>),
                Str(<<"G", "1">>)}),
       Varying({Title}, {NaN, Str(<<"T">>)}) >>

\* df without one column
DropColumn(df, col) ==
    [columns |-> df.columns \ {col},
     rows |-> [i \in DOMAIN df.rows |->
                 [c \in df.columns \ {col} |-> df.rows[i][c]]]]

\* Source files: every column present, or base rows with one column left out,
\* or a file that cannot be read.
SourceFiles ==
    {[ok |-> TRUE, columns |-> SourceColumns, rows |-> rows] :
        rows \in UNION {[1..n -> RecordFamilies[g]] :
                          n \in 1..MaxRows, g \in DOMAIN RecordFamilies}}
    \cup
    {[ok |-> TRUE] @@ DropColumn([columns |-> SourceColumns,
                                  rows |-> [i \in 1..n |-> BaseRecord]], c) :
        n \in 1..MaxRows, c \in SourceColumns}
    \cup
    {[ok |-> FALSE, columns |-> {}, rows |-> <<>>]}

TemplateKeys ==
    << Str(Lit(FundingBodyAwardId)), Str(Lit(FundsStatusKey)),
       Str(Lit(Initials)), Str(Lit(Amount)), Str(Lit(DepartmentName)),
       Str(Lit(Orcid)), Str(Lit(FamilyName)), Str(Lit(FullName)),
       Str(Lit(EndDate)), Str(Lit(Title)), Str(Lit(FunderSchemeType)), NaN >>

Static == Str(<<"S">>)

\* Which template rows come with a static value: none, or every other one
StaticPatterns ==
    { {},
      {i \in DOMAIN TemplateKeys : i % 2 = 0},
      {i \in DOMAIN TemplateKeys : i % 2 = 1} }

TemplateWith(pattern) ==
    [ok |-> TRUE, columns |-> {KeyCol, ValueCol},
     rows |-> [i \in DOMAIN TemplateKeys |->
                 [c \in {KeyCol, ValueCol} |->
                    IF c = KeyCol THEN TemplateKeys[i]
                    ELSE IF i \in pattern THEN Static ELSE NaN]]]

TemplateFiles ==
    {TemplateWith(p) : p \in StaticPatterns}
    \cup {[ok |-> TRUE] @@ DropColumn(TemplateWith(DOMAIN TemplateKeys), KeyCol)}

NoFiles == [x \in {} |-> <<>>]

Init ==
    /\ source_csv \in SourceFiles
    /\ target_csv \in TemplateFiles
    /\ source_df = EmptyFrame
    /\ frames = [target |-> EmptyFrame, updated |-> EmptyFrame]
    /\ updated_target_df = "none"
    /\ pc = "read"
    /\ index = 0
    /\ files = NoFiles
    /\ output_folder = FALSE
    /\ stdout = <<>>

(***************************************************************************)
(* Actions.                                                                *)
(***************************************************************************)
Frame(csv) == [columns |-> csv.columns, rows |-> csv.rows]

\* lines 6-16
ReadFiles ==
    /\ pc = "read"
    /\ IF source_csv.ok /\ target_csv.ok
       THEN /\ source_df' = Frame(source_csv)
            /\ frames' = [frames EXCEPT !["target"] = Frame(target_csv)]
            /\ stdout' = stdout \o <<Say("INFO Source CSV Columns"),
                                     Say("INFO Target CSV Columns")>>
            /\ pc' = "check_target"
       ELSE /\ stdout' = Append(stdout, Say("ERROR Failed to read files"))
            /\ pc' = "returned"
            /\ UNCHANGED <<source_df, frames>>
    /\ UNCHANGED <<source_csv, target_csv, updated_target_df, index, files,
                   output_folder>>

\* lines 18-19
CheckTarget ==
    /\ pc = "check_target"
    /\ pc' = IF KeyCol \in frames["target"].columns THEN "makedirs" ELSE "raised"
    /\ UNCHANGED <<source_csv, target_csv, source_df, frames, updated_target_df,
                   index, files, output_folder, stdout>>

\* line 21
MakeDirs ==
    /\ pc = "makedirs"
    /\ output_folder' = TRUE
    /\ pc' = "initials"
    /\ UNCHANGED <<source_csv, target_csv, source_df, frames, updated_target_df,
                   index, files, stdout>>

\* One loader step: r is what the step's operator gives for source_df
LoaderStep(at, r) ==
    /\ pc = at
    /\ source_df' = r.df
    /\ pc' = r.next
    /\ stdout' = stdout \o r.out
    /\ UNCHANGED <<source_csv, target_csv, frames, updated_target_df, index,
                   files, output_folder>>

InitialsStep == LoaderStep("initials", ExtractInitials(source_df))
FundingIdStep == LoaderStep("funding_id", ExtractFundingBodyAwardId(source_df))
FullNameStep == LoaderStep("full_name", MergeFullName(source_df))
DatesStep == LoaderStep("dates", ParseDates(source_df))
AmountStep == LoaderStep("amount", ConvertAmount(source_df))
DepartmentStep == LoaderStep("department", FillDepartment(source_df))
OrcidStep == LoaderStep("orcid", FillOrcid(source_df))

\* lines 78-112: take the next row, copy the template, resolve the copy
IterMap ==
    /\ pc = "loop"
    /\ index < Len(source_df.rows)
    /\ LET row == source_df.rows[index + 1]
           c == copy(frames, "target")
       IN  /\ frames' = [c.heap EXCEPT ![c.ref] = MapRow(c.heap[c.ref], row)]
           /\ updated_target_df' = c.ref
    /\ pc' = "save"
    /\ UNCHANGED <<source_csv, target_csv, source_df, index, files,
                   output_folder, stdout>>

\* lines 119-130: name the output, write it, report, go to the next row
IterSave ==
    /\ pc = "save"
    /\ LET id == grant_award_id(source_df.rows[index + 1], index)
       IN  /\ files' = (output_file(id) :> frames[updated_target_df].rows) @@ files
           /\ stdout' = Append(stdout, [tag |-> "SUCCESS", id |-> id])
    /\ index' = index + 1
    /\ pc' = "loop"
    /\ UNCHANGED <<source_csv, target_csv, source_df, frames, updated_target_df,
                   output_folder>>

\* the loop has no more rows: map_csv_to_csv returns
Finish ==
    /\ pc = "loop"
    /\ index = Len(source_df.rows)
    /\ pc' = "done"
    /\ UNCHANGED <<source_csv, target_csv, source_df, frames, updated_target_df,
                   index, files, output_folder, stdout>>

Next ==
    \/ ReadFiles
    \/ CheckTarget
    \/ MakeDirs
    \/ InitialsStep
    \/ FundingIdStep
    \/ FullNameStep
    \/ DatesStep
    \/ AmountStep
    \/ DepartmentStep
    \/ OrcidStep
    \/ IterMap
    \/ IterSave
    \/ Finish

Spec == Init /\ [][Next]_vars

(***************************************************************************)
(* Properties.  In a state with pc = "save" the row at position index has  *)
(* just been mapped and its output is about to be written.                 *)
(***************************************************************************)
OverrideKeys == {FundingBodyAwardId, FundsStatusKey, Initials, Amount,
                 DepartmentName, Orcid}

IsOverrideKey(cell) == \E k \in OverrideKeys : cell = Str(Lit(k))

Template == Frame(target_csv)           \* the template as loaded
Output == frames[updated_target_df]     \* the output of the row just mapped
RawRecord == source_csv.rows[index + 1] \* that row as loaded
Record == source_df.rows[index + 1]     \* that row, normalised
InLoop == pc \in {"loop", "save", "done"}
Blank(cell) == ~notna(cell) \/ cell = EmptyStr

\* The normalised or derived attribute of a record for an override key
Attribute(row, k) == IF k = FundsStatusKey THEN funds_status(row) ELSE row[k]

\* C1: once a record is mapped, every template row with one of the six
\* override keys holds the record's normalised/derived value for that key,
\* whatever the template held there and whatever default fill produced.
C1_OverridesWin ==
    pc = "save" =>
        \A i \in DOMAIN Output.rows : \A k \in OverrideKeys :
            Output.rows[i][KeyCol] = Str(Lit(k))
                => Output.rows[i][ValueCol] = Attribute(Record, k)

\* C1 witness: a static template value under an override key was replaced
C1_Witness ==
    /\ pc = "save"
    /\ \E i \in DOMAIN Output.rows :
        /\ IsOverrideKey(Template.rows[i][KeyCol])
        /\ Template.rows[i][ValueCol] = Static
        /\ Output.rows[i][ValueCol] # Static

\* C2: a template row outside the override list whose pre-populated value is
\* non-empty is in every record's output with exactly the template's value.
C2_StaticPreserved ==
    pc = "save" =>
        \A i \in DOMAIN Output.rows :
            (~IsOverrideKey(Template.rows[i][KeyCol])
             /\ ~Blank(Template.rows[i][ValueCol]))
                => Output.rows[i][ValueCol] = Template.rows[i][ValueCol]

\* C2 witness: a static value was kept although the source has a value for
\* that key
C2_Witness ==
    /\ pc = "save"
    /\ \E i \in DOMAIN Output.rows :
        /\ Template.rows[i][KeyCol] = Str(Lit(Title))
        /\ Template.rows[i][ValueCol] = Static
        /\ Output.rows[i][ValueCol] = Static
        /\ Title \in DOMAIN Record
        /\ Record[Title] = Str(<<"T">>)

\* C3: a template row outside the override list whose value is null or empty
\* is resolved to the record's value under that key when the source table
\* (as it is when the loop runs) has a column of that name, else "NOT FOUND".
C3_BlankFilled ==
    pc = "save" =>
        \A i \in DOMAIN Output.rows :
            LET key == Template.rows[i][KeyCol]
            IN  (~IsOverrideKey(key) /\ Blank(Template.rows[i][ValueCol]))
                    => Output.rows[i][ValueCol] =
                        IF \E c \in source_df.columns : key = Str(Lit(c))
                        THEN Record[key.v[1]]
                        ELSE NOT_FOUND

\* C3 witness: one blank row took the source value, another "NOT FOUND"
C3_Witness ==
    /\ pc = "save"
    /\ \E i, j \in DOMAIN Output.rows :
        /\ Template.rows[i][KeyCol] = Str(Lit(Title))
        /\ Blank(Template.rows[i][ValueCol])
        /\ Output.rows[i][ValueCol] = Str(<<"T">>)
        /\ Template.rows[j][KeyCol] = Str(Lit(FunderSchemeType))
        /\ Blank(Template.rows[j][ValueCol])
        /\ Output.rows[j][ValueCol] = NOT_FOUND

ValidDate(cell) == cell.t = "date"

\* C4: funds/status is "OPEN" exactly when endDate and createdOn are both
\* valid and endDate is strictly later, "CLOSED" exactly when both are valid
\* and endDate is not later, "UNKNOWN" exactly when one is missing or
\* unparseable.
C4_FundsStatus ==
    pc = "save" =>
        \A i \in DOMAIN Output.rows :
            Output.rows[i][KeyCol] = Str(Lit(FundsStatusKey)) =>
                LET e == to_datetime(RawRecord[EndDate])
                    c == to_datetime(RawRecord[CreatedOn])
                    both == ValidDate(e) /\ ValidDate(c)
                    status == Output.rows[i][ValueCol]
                IN  /\ status = OPEN <=> (both /\ e.d > c.d)
                    /\ status = CLOSED <=> (both /\ e.d <= c.d)
                    /\ status = UNKNOWN <=> ~both

\* C4 witness: equal valid dates gave "CLOSED"
C4_Witness ==
    /\ pc = "save"
    /\ RawRecord[EndDate] = ThirdOfApril
    /\ RawRecord[CreatedOn] = ThirdOfApril
    /\ \E i \in DOMAIN Output.rows :
        /\ Output.rows[i][KeyCol] = Str(Lit(FundsStatusKey))
        /\ Output.rows[i][ValueCol] = CLOSED

MissingColumn ==
    /\ source_csv.ok /\ target_csv.ok
    /\ \/ KeyCol \notin target_csv.columns
       \/ ~(RequiredColumns \subseteq source_csv.columns)

\* C5: when the template lacks the key column or the source lacks a required
\* column, the loop is never entered: no record is mapped, no file written.
C5_AbortBeforeLoop ==
    MissingColumn =>
        /\ ~InLoop
        /\ index = 0
        /\ updated_target_df = "none"
        /\ files = NoFiles

\* C5 witness: a run over several records stopped on a missing column
C5_Witness ==
    /\ MissingColumn
    /\ pc \in {"returned", "raised"}
    /\ Len(source_csv.rows) >= 2

\* C6: after a run that passes validation over N records, N distinct output
\* files exist, one per record.
C6_OneFilePerRecord ==
    pc = "done" => Cardinality(DOMAIN files) = Len(source_df.rows)

Successes == SelectSeq(stdout, LAMBDA m : m.tag = "SUCCESS")

\* The identifier the naming rule gives the record at 0-based position i
NamedId(i) ==
    LET g == IF GrantAwardId \in source_csv.columns
             THEN source_csv.rows[i + 1][GrantAwardId]
             ELSE NaN
    IN  IF g.t = "str" /\ strip(g.v) # <<>> /\ lower(strip(g.v)) # NanText
        THEN strip(g.v)
        ELSE <<"r", "o", "w", "_">> \o IntToText(i + 1)

\* C7: the record at 0-based position i is written under its trimmed
\* grantAwardId when that is present, non-empty and not "nan" in any letter
\* case, and under row_<i+1> otherwise.
C7_OutputIdentifier ==
    /\ Len(Successes) = index
    /\ \A n \in DOMAIN Successes :
        /\ Successes[n].id = NamedId(n - 1)
        /\ output_file(NamedId(n - 1)) \in DOMAIN files

\* C7 witness: a padded id was trimmed and a padded "Nan" fell back to row_2
C7_Witness ==
    /\ Len(Successes) = 2
    /\ GrantAwardId \in source_csv.columns
    /\ source_csv.rows[1][GrantAwardId] = Str(<<" ", "G", "1", " ">>)
    /\ Successes[1].id = <<"G", "1">>
    /\ source_csv.rows[2][GrantAwardId] = Str(<<" ", "N", "a", "n">>)
    /\ Successes[2].id = <<"r", "o", "w", "_", "2">>

\* C8: the normalised amount is the raw amount text before its first decimal
\* point, and "NOT FOUND" when the raw amount is null.
C8_AmountWhole ==
    InLoop =>
        \A i \in DOMAIN source_df.rows :
            LET raw == source_csv.rows[i][Amount]
            IN  source_df.rows[i][Amount] =
                    IF raw.t = "str" THEN Str(SplitDotFirst(raw.v))
                    ELSE NOT_FOUND

\* C9: no resolved value of an output record is null or the text "nan".
C9_NoNullOutput ==
    pc = "save" =>
        \A i \in DOMAIN Output.rows :
            /\ notna(Output.rows[i][ValueCol])
            /\ Output.rows[i][ValueCol] # Str(NanText)

\* C10: the loop never changes the template: in and after the loop it is the
\* template as loaded, and each output is the mapping of the loaded template.
C10_TemplateUnchanged ==
    InLoop =>
        /\ frames["target"] = Template
        /\ pc = "save" => Output = MapRow(Template, Record)

\* C10 witness: after the last of several records, outputs that differ from
\* the template have been produced
C10_Witness ==
    /\ pc = "done"
    /\ index >= 2
    /\ frames["updated"] # frames["target"]

====
